---- MODULE Spec2Model ----
(***************************************************************************)
(* Model of the backtesting engine, intelligent_investor_India/src/        *)
(* backtest.py: the Backtester object, its constructor (load_tickers) and  *)
(* run_backtest, with the pandas operations the method performs on the     *)
(* provider's price table (column selection, dropna, ffill/bfill,          *)
(* normalisation, row mean) written out as operators.                      *)
(*                                                                         *)
(* Numbers.  A raw price cell is a natural number, or NaN for a missing    *)
(* observation.  A float computed by the method is a record                *)
(* [k, n, d]: k = "num" is the rational n/d in lowest terms, k = "nan" is  *)
(* IEEE NaN, k = "inf" is +infinity (n = 1) or -infinity (n = -1), and     *)
(* k = "none" is Python's None (the variable was never assigned).          *)
(* Rounding of binary floating point is not modelled: finite values are    *)
(* exact rationals.                                                        *)
(***************************************************************************)
EXTENDS Integers, Sequences, FiniteSets, TLC

VARIABLES
    file,             \* the CSV at buy_list_path, as it is on disk
    pc,               \* position of the program: "start", "ready", "ran", "reran"
    today,            \* datetime.now(), as a day number
    tickers,          \* self.tickers
    data_raw,         \* what yf.download answered in the last run
    fetched,          \* TRUE once yf.download has been called
    outcome,          \* how the last run of run_backtest ended
    target_col,       \* the price field chosen
    data,             \* the cleaned price table (after dropna, ffill, bfill)
    normalized_data,  \* data rebased to 100
    valid_tickers,    \* candidates found among the columns of data
    strategy_col,     \* the equal-weight series
    benchmark_col,    \* the benchmark's normalised series, <<>> when None
    strategy_return,
    benchmark_return,
    diff,
    start_date,
    end_date,
    stdout,           \* the lines printed, by kind, in order
    chart,            \* TRUE once plt.savefig wrote reports/backtest_results.png
    first             \* the result of the previous run, for comparing two runs

vars == <<file, pc, today, tickers, data_raw, fetched, outcome, target_col, data,
          normalized_data, valid_tickers, strategy_col, benchmark_col,
          strategy_return, benchmark_return, diff, start_date, end_date,
          stdout, chart, first>>

(***************************************************************************)
(* Bounds of the model and constants of the program.                       *)
(***************************************************************************)
MaxPrice == 1       \* prices range over 0..MaxPrice
MaxTickers == 2     \* rows of the ticker file
MaxDay == 1         \* days between two runs that do not start on the same day
Years == 3          \* Backtester('reports/NSE_Buy_List.csv', years=3)
DaysPerYear == 365  \* timedelta(days=self.years*365)

Benchmark == "^NSEI"
Candidates == {"AAA", "BBB"}
Window == <<"d1", "d2">>          \* the date index of the provider's table
Rows == 1..Len(Window)
NaN == -1                         \* a missing observation in a raw price cell

AdjClose == "Adj Close"
Close == "Close"
Open == "Open"

Range(s) == {s[i] : i \in 1..Len(s)}

(***************************************************************************)
(* Float arithmetic, as numpy performs it on float64 columns.              *)
(***************************************************************************)
Abs(x) == IF x < 0 THEN -x ELSE x

RECURSIVE GCD(_, _)
GCD(a, b) == IF b = 0 THEN a ELSE GCD(b, a % b)

Num(n, d) == LET g == GCD(Abs(n), d) IN [k |-> "num", n |-> n \div g, d |-> d \div g]
FNaN == [k |-> "nan", n |-> 0, d |-> 1]
PInf == [k |-> "inf", n |-> 1, d |-> 1]
NInf == [k |-> "inf", n |-> -1, d |-> 1]
None == [k |-> "none", n |-> 0, d |-> 1]
Hundred == Num(100, 1)

IsNum(x) == x.k = "num"

\* v / f for two raw cells: x/0 is inf, 0/0 and anything with NaN is NaN.
CellDiv(v, f) ==
    IF v = NaN \/ f = NaN THEN FNaN
    ELSE IF f = 0 THEN (IF v = 0 THEN FNaN ELSE PInf)
    ELSE Num(v, f)

FTimes100(x) == IF x.k = "num" THEN Num(100 * x.n, x.d) ELSE x

FNeg(x) == [x EXCEPT !.n = -x.n]

FSub(x, y) ==
    IF x.k = "nan" \/ y.k = "nan" THEN FNaN
    ELSE IF x.k = "inf" /\ y.k = "inf" THEN (IF x.n = y.n THEN FNaN ELSE x)
    ELSE IF x.k = "inf" THEN x
    ELSE IF y.k = "inf" THEN FNeg(y)
    ELSE Num(x.n * y.d - y.n * x.d, x.d * y.d)

\* x > y on floats: any comparison with NaN is False.
FGt(x, y) ==
    IF x.k = "nan" \/ y.k = "nan" THEN FALSE
    ELSE IF x.k = "inf" THEN x.n = 1 /\ ~(y.k = "inf" /\ y.n = 1)
    ELSE IF y.k = "inf" THEN y.n = -1
    ELSE x.n * y.d > y.n * x.d

RECURSIVE SumNum(_)
SumNum(s) ==
    IF s = <<>> THEN Num(0, 1)
    ELSE LET r == SumNum(Tail(s))
             h == Head(s)
         IN Num(h.n * r.d + r.n * h.d, h.d * r.d)

IsNotNaN(x) == x.k # "nan"
IsInf(x) == x.k = "inf"

\* Series.mean / DataFrame.mean(axis=1): skipna=True drops the NaN cells, then
\* sums what is left and divides by their count.
MeanSkipNa(s) ==
    LET kept == SelectSeq(s, IsNotNaN)
    IN IF kept = <<>> THEN FNaN
       ELSE IF \E i \in 1..Len(kept) : IsInf(kept[i])
            THEN (IF \E i \in 1..Len(kept) : kept[i] = NInf THEN
                      (IF \E i \in 1..Len(kept) : kept[i] = PInf THEN FNaN ELSE NInf)
                  ELSE PInf)
       ELSE LET t == SumNum(kept) IN Num(t.n, t.d * Len(kept))


(***************************************************************************)
(* The ticker file and load_tickers.                                       *)
(* A file is missing, or blank (no header line at all), or a table with    *)
(* one column named by its header and the rows under it.                   *)
(***************************************************************************)
TickerLists == UNION {[1..n -> Candidates] : n \in 0..MaxTickers}

MissingFile == [exists |-> FALSE, header |-> "", rows |-> <<>>]
BlankFile == [exists |-> TRUE, header |-> "", rows |-> <<>>]
Files ==
    {MissingFile, BlankFile}
    \cup {[exists |-> TRUE, header |-> h, rows |-> r] :
              h \in {"ticker", "Ticker"}, r \in TickerLists}
    \cup {[exists |-> TRUE, header |-> "symbol", rows |-> r] :
              r \in {<<>>, <<"AAA">>}}

\* pd.read_csv raises EmptyDataError on a file with no header line; the
\* constructor does not catch it.
ReadCsvRaises(f) == f.exists /\ f.header = ""

load_tickers(f) ==
    IF ~f.exists THEN [tickers |-> <<>>, printed |-> <<"file_not_found">>]
    ELSE IF f.header = "ticker" THEN [tickers |-> f.rows, printed |-> <<>>]
    ELSE IF f.header = "Ticker" THEN [tickers |-> f.rows, printed |-> <<>>]
    ELSE [tickers |-> <<>>, printed |-> <<"need_ticker_column">>]

(***************************************************************************)
(* The provider's answer to yf.download.                                   *)
(* kind "raise": the call raised; "empty": a table with no rows or no      *)
(* columns; "flat": one level of column names, a price field each;         *)
(* "layered": two levels, price field x symbol.                            *)
(***************************************************************************)
Cells == {NaN} \cup 0..MaxPrice
Columns == [Rows -> Cells]
FieldSets == {{AdjClose}, {Close}, {AdjClose, Close}, {Open}}

NoResponse == [kind |-> "none", flat |-> <<>>, layered |-> <<>>]
RaiseResponse == [kind |-> "raise", flat |-> <<>>, layered |-> <<>>]
EmptyResponse == [kind |-> "empty", flat |-> <<>>, layered |-> <<>>]

SymbolTables(req) == UNION {[S -> Columns] : S \in (SUBSET req) \ {{}}}

FlatResponses ==
    {[kind |-> "flat", flat |-> [f \in F |-> c], layered |-> <<>>] :
         F \in FieldSets, c \in Columns}

\* The adjusted price of a column: a dividend of one unit paid before the last
\* date is taken off every earlier price, so that the two price fields of a
\* table differ.
Adjusted(col) ==
    [i \in DOMAIN col |->
        IF i < Len(Window) /\ col[i] # NaN /\ col[i] > 0 THEN col[i] - 1 ELSE col[i]]

LayeredResponses(req) ==
    {[kind |-> "layered", flat |-> <<>>,
      layered |-> [f \in F |->
                      IF f = AdjClose /\ Close \in F
                      THEN [s \in DOMAIN T |-> Adjusted(T[s])]
                      ELSE T]] :
         F \in FieldSets, T \in SymbolTables(req)}

\* The provider answers for symbols among those it was asked for.
ProviderResponses(requested) ==
    {RaiseResponse, EmptyResponse} \cup FlatResponses
    \cup LayeredResponses(Range(requested))

(***************************************************************************)
(* The steps of run_backtest on the provider's table.                      *)
(***************************************************************************)
NoDate == [set |-> FALSE, day |-> 0]
Date(d) == [set |-> TRUE, day |-> d]

\* (datetime.now() - timedelta(days=self.years*365)).strftime('%Y-%m-%d')
StartDate(now) == Date(now - Years * DaysPerYear)
\* datetime.now().strftime('%Y-%m-%d')
EndDate(now) == Date(now)

\* the guard of line 28 dropped: an empty ticker list goes on to the download
NoTickersUnchecked(tks) == FALSE
NoTickers(tks) == tks = <<>>

\* self.tickers + ['^NSEI'] builds a new list: self.tickers is left as it was.
TickersWithBenchmark(tks) == tks \o <<Benchmark>>
\* self.tickers.append('^NSEI') in place of the concatenation
SelfTickersAppended(tks) == tks \o <<Benchmark>>
SelfTickersAfterRun(tks) == tks

IsEmpty(resp) == resp.kind = "empty"

\* columns.get_level_values(0) of a MultiIndex, the columns themselves otherwise
FieldsOf(resp) ==
    IF resp.kind = "layered" THEN DOMAIN resp.layered ELSE DOMAIN resp.flat

NoField == ""
\* the two tests of lines 59-63 and 66-70 in the other order
SelectFieldCloseFirst(fields) ==
    IF Close \in fields THEN Close
    ELSE IF AdjClose \in fields THEN AdjClose
    ELSE NoField

SelectField(fields) ==
    IF AdjClose \in fields THEN AdjClose
    ELSE IF Close \in fields THEN Close
    ELSE NoField

\* data_raw[target_col] of a flat table is a Series, and Series.dropna accepts
\* no axis=1: it raises ValueError, outside every try block of the method.
DropnaRaises(resp) == resp.kind = "flat"

AllMissing(col) == \A i \in DOMAIN col : col[i] = NaN

\* line 80 left out: the columns that failed to download stay in the table
DropNothing(tbl) == tbl

\* data.dropna(axis=1, how='all')
DropAllNaN(tbl) == [s \in {x \in DOMAIN tbl : ~AllMissing(tbl[x])} |-> tbl[s]]

\* ffill: each gap takes the last observation before it
Ffill(col) ==
    [i \in DOMAIN col |->
        LET seen == {j \in DOMAIN col : j <= i /\ col[j] # NaN}
        IN IF seen = {} THEN NaN
           ELSE col[CHOOSE j \in seen : \A m \in seen : m <= j]]

\* bfill: each remaining gap takes the first observation after it
Bfill(col) ==
    [i \in DOMAIN col |->
        LET ahead == {j \in DOMAIN col : j >= i /\ col[j] # NaN}
        IN IF ahead = {} THEN NaN
           ELSE col[CHOOSE j \in ahead : \A m \in ahead : j <= m]]

\* data.ffill().bfill()
FillGaps(tbl) == [s \in DOMAIN tbl |-> Bfill(Ffill(tbl[s]))]

\* data.iloc[0] raises IndexError on a table with no rows
NormalizationRaises(tbl) == Rows = {}

\* (data / data.iloc[0]) * 100
Normalize(tbl) ==
    [s \in DOMAIN tbl |->
        [i \in DOMAIN tbl[s] |-> FTimes100(CellDiv(tbl[s][i], tbl[s][1]))]]

\* [t for t in self.tickers if t in data.columns]
ValidTickers(tks, tbl) == SelectSeq(tks, LAMBDA t : t \in DOMAIN tbl)

\* the guard of line 98 dropped
NoValidTickersUnchecked(valid) == FALSE
NoValidTickers(valid) == valid = <<>>

\* normalized_data[valid_tickers].mean(axis=1)
StrategyCol(norm, valid) ==
    [i \in Rows |-> MeanSkipNa([j \in 1..Len(valid) |-> norm[valid[j]][i]])]

\* normalized_data['^NSEI'] if the column is there, None otherwise
BenchmarkCol(norm) == IF Benchmark \in DOMAIN norm THEN norm[Benchmark] ELSE <<>>

\* col.iloc[-1] - 100
ReturnOf(col) == FSub(col[Len(Window)], Hundred)

\* >= in place of > on line 122
VerdictTieWins(s, b) == IF FGt(s, b) \/ s = b THEN "success" ELSE "underperformance"

\* if strategy_return > benchmark_return: SUCCESS, else: UNDERPERFORMANCE
Verdict(s, b) == IF FGt(s, b) THEN "success" ELSE "underperformance"

(***************************************************************************)
(* run_backtest, from its first line to the return it takes: the values    *)
(* of its locals, what it printed and whether it wrote the chart.          *)
(***************************************************************************)
Blank ==
    [outcome |-> "", fetched |-> FALSE, data_raw |-> NoResponse,
     target_col |-> NoField, data |-> <<>>, normalized_data |-> <<>>,
     valid_tickers |-> <<>>, strategy_col |-> <<>>, benchmark_col |-> <<>>,
     strategy_return |-> None, benchmark_return |-> None, diff |-> None,
     start_date |-> NoDate, end_date |-> NoDate, printed |-> <<>>,
     chart |-> FALSE]

\* lines 28-30
ReturnNoTickers ==
    [Blank EXCEPT !.outcome = "no_tickers", !.printed = <<"no_tickers">>]

\* lines 104-142, once strategy_col is known
Report(r) ==
    LET bench == BenchmarkCol(r.normalized_data)
        sret == ReturnOf(r.strategy_col)
        r1 == [r EXCEPT !.benchmark_col = bench,
                        !.strategy_return = sret,
                        !.printed = (IF bench = <<>>
                                     THEN @ \o <<"benchmark_missing">>
                                     ELSE @) \o <<"results">>]
        r2 == IF bench = <<>> THEN r1
              ELSE LET bret == ReturnOf(bench)
                   IN [r1 EXCEPT !.benchmark_return = bret,
                                 !.diff = FSub(sret, bret),
                                 !.printed = @ \o <<"nifty_return", Verdict(sret, bret)>>]
    IN [r2 EXCEPT !.chart = TRUE, !.outcome = "done",
                  !.printed = @ \o <<"chart_saved">>]

\* lines 76-102, once a price field is chosen in a layered table
Simulate(r, tks, resp) ==
    LET cleaned == FillGaps(DropAllNaN(resp.layered[r.target_col]))
        r1 == [r EXCEPT !.data = cleaned]
    IN IF NormalizationRaises(cleaned)
       THEN [r1 EXCEPT !.outcome = "normalization_error",
                       !.printed = @ \o <<"normalization_error">>]
       ELSE LET norm == Normalize(cleaned)
                valid == ValidTickers(tks, cleaned)
                r2 == [r1 EXCEPT !.normalized_data = norm, !.valid_tickers = valid]
            IN IF NoValidTickers(valid)
               THEN [r2 EXCEPT !.outcome = "no_valid",
                               !.printed = @ \o <<"no_valid">>]
               ELSE Report([r2 EXCEPT !.strategy_col = StrategyCol(norm, valid)])

\* lines 32-142
Backtest(tks, resp, now) ==
    LET r0 == [Blank EXCEPT !.fetched = TRUE, !.data_raw = resp,
                            !.start_date = StartDate(now),
                            !.end_date = EndDate(now),
                            !.printed = <<"banner">>]
    IN IF resp.kind = "raise"
       THEN [r0 EXCEPT !.outcome = "download_error",
                       !.printed = @ \o <<"download_error">>]
       ELSE IF IsEmpty(resp)
       THEN [r0 EXCEPT !.outcome = "no_data", !.printed = @ \o <<"no_data">>]
       ELSE LET col == SelectField(FieldsOf(resp))
                r1 == [r0 EXCEPT !.target_col = col,
                                 !.printed = IF col = Close
                                             THEN @ \o <<"close_note">> ELSE @]
            IN IF col = NoField
               THEN [r1 EXCEPT !.outcome = "field_not_found",
                               !.printed = @ \o <<"field_not_found">>]
               ELSE IF DropnaRaises(resp)
               THEN [r1 EXCEPT !.outcome = "uncaught"]
               ELSE Simulate(r1, tks, resp)

(***************************************************************************)
(* The program: bt = Backtester(path, years=3); bt.run_backtest().         *)
(***************************************************************************)
NoFirst ==
    [ran |-> FALSE, day |-> 0, data_raw |-> NoResponse, outcome |-> "",
     strategy_return |-> None, benchmark_return |-> None, diff |-> None,
     start_date |-> NoDate, end_date |-> NoDate]

Init ==
    /\ file \in Files
    /\ pc = "start"
    /\ today = 0
    /\ tickers = <<>>
    /\ data_raw = NoResponse
    /\ fetched = FALSE
    /\ outcome = ""
    /\ target_col = NoField
    /\ data = <<>>
    /\ normalized_data = <<>>
    /\ valid_tickers = <<>>
    /\ strategy_col = <<>>
    /\ benchmark_col = <<>>
    /\ strategy_return = None
    /\ benchmark_return = None
    /\ diff = None
    /\ start_date = NoDate
    /\ end_date = NoDate
    /\ stdout = <<>>
    /\ chart = FALSE
    /\ first = NoFirst

\* Backtester.__init__
Construct ==
    /\ pc = "start"
    /\ IF ReadCsvRaises(file)
       THEN /\ pc' = "crashed"
            /\ UNCHANGED <<tickers, stdout>>
       ELSE /\ pc' = "ready"
            /\ tickers' = load_tickers(file).tickers
            /\ stdout' = stdout \o load_tickers(file).printed
    /\ UNCHANGED <<file, today, data_raw, fetched, outcome, target_col, data,
                   normalized_data, valid_tickers, strategy_col, benchmark_col,
                   strategy_return, benchmark_return, diff, start_date,
                   end_date, chart, first>>

\* the state a call of run_backtest leaves, r being what the call computed
Finish(r) ==
    /\ data_raw' = r.data_raw
    /\ fetched' = (fetched \/ r.fetched)
    /\ outcome' = r.outcome
    /\ target_col' = r.target_col
    /\ data' = r.data
    /\ normalized_data' = r.normalized_data
    /\ valid_tickers' = r.valid_tickers
    /\ strategy_col' = r.strategy_col
    /\ benchmark_col' = r.benchmark_col
    /\ strategy_return' = r.strategy_return
    /\ benchmark_return' = r.benchmark_return
    /\ diff' = r.diff
    /\ start_date' = r.start_date
    /\ end_date' = r.end_date
    /\ stdout' = stdout \o r.printed
    /\ chart' = (chart \/ r.chart)
    /\ tickers' = (IF r.fetched THEN SelfTickersAfterRun(tickers) ELSE tickers)

\* Backtester.run_backtest, the provider answering resp if it is asked
run_backtest ==
    /\ pc = "ready"
    /\ pc' = "ran"
    /\ IF NoTickers(tickers)
       THEN Finish(ReturnNoTickers)
       ELSE \E resp \in ProviderResponses(TickersWithBenchmark(tickers)) :
                Finish(Backtest(tickers, resp, today))
    /\ UNCHANGED <<file, today, first>>

\* run_backtest a second time, the same day or MaxDay days later, the file
\* unchanged and the provider answering as it did
run_again ==
    /\ pc = "ran"
    /\ pc' = "reran"
    /\ \E d \in {today, today + MaxDay} :
        /\ today' = d
        /\ first' = [ran |-> TRUE, day |-> today, data_raw |-> data_raw,
                     outcome |-> outcome,
                     strategy_return |-> strategy_return,
                     benchmark_return |-> benchmark_return, diff |-> diff,
                     start_date |-> start_date, end_date |-> end_date]
        /\ IF NoTickers(tickers)
           THEN Finish(ReturnNoTickers)
           ELSE Finish(Backtest(tickers, data_raw, d))
    /\ UNCHANGED file

Next == Construct \/ run_backtest

Spec == Init /\ [][Next]_vars

NextRerun == Construct \/ run_backtest \/ run_again

SpecRerun == Init /\ [][NextRerun]_vars

(***************************************************************************)
(* What the claims speak of, read off the inputs of the run.               *)
(***************************************************************************)
HasTable == data_raw.kind \in {"flat", "layered"}
RawFields == IF data_raw.kind = "layered" THEN DOMAIN data_raw.layered
             ELSE DOMAIN data_raw.flat
HasPriceField == AdjClose \in RawFields \/ Close \in RawFields
PreferredField == IF AdjClose \in RawFields THEN AdjClose ELSE Close

\* the symbol's column under the preferred field holds at least one price
HasHistory(sym) ==
    /\ data_raw.kind = "layered"
    /\ HasPriceField
    /\ sym \in DOMAIN data_raw.layered[PreferredField]
    /\ \E i \in Rows : data_raw.layered[PreferredField][sym][i] # NaN

SomeCandidateSurvives == \E t \in Range(tickers) : HasHistory(t)

Printed(kind) == kind \in Range(stdout)
Diagnostics == {"no_tickers", "download_error", "no_data", "field_not_found",
                "normalization_error", "no_valid"}
ReportLines == {"results", "nifty_return", "success", "underperformance"}
NoReport ==
    /\ \A k \in ReportLines : ~Printed(k)
    /\ strategy_return = None
    /\ benchmark_return = None
    /\ diff = None

\* one of the fatal conditions the method checks for holds of the run's inputs
FatalCondition ==
    \/ tickers = <<>>
    \/ data_raw.kind \in {"raise", "empty"}
    \/ HasTable /\ ~HasPriceField
    \/ data_raw.kind = "layered" /\ HasPriceField /\ ~SomeCandidateSurvives

\* C1: a run that meets a fatal condition writes no chart and reports no
\* result; it prints a diagnostic.
C1_FatalRunLeavesNoArtifacts ==
    (pc = "ran" /\ FatalCondition) =>
        /\ ~chart
        /\ NoReport
        /\ \E k \in Diagnostics : Printed(k)

C1_Witness ==
    /\ pc = "ran"
    /\ tickers # <<>>
    /\ data_raw.kind = "layered"
    /\ HasPriceField
    /\ ~SomeCandidateSurvives
    /\ outcome = "no_valid"
    /\ Printed("no_valid")
    /\ ~chart

\* C2: with the ticker file missing, without a ticker column, or with a
\* header and no rows, the provider is never called and no chart is written.
NoTickerFile ==
    \/ ~file.exists
    \/ file.header \notin {"ticker", "Ticker"}
    \/ file.rows = <<>>

C2_NoTickersNoFetch ==
    NoTickerFile => (~fetched /\ ~chart /\ data_raw = NoResponse)

C2_Witness ==
    /\ pc = "ran"
    /\ file.exists
    /\ file.header = "ticker"
    /\ file.rows = <<>>
    /\ Printed("no_tickers")
    /\ ~fetched

\* C3: on a non-empty table of either shape, 'Adj Close' is chosen whenever
\* present, otherwise 'Close' with the advisory, otherwise the run halts;
\* the advisory is printed exactly when 'Close' was chosen, and every cleaned
\* column comes from the chosen field.
C3_FieldSelection ==
    (pc = "ran" /\ HasTable) =>
        /\ (AdjClose \in RawFields => target_col = AdjClose)
        /\ (AdjClose \notin RawFields /\ Close \in RawFields => target_col = Close)
        /\ (~HasPriceField =>
                target_col = NoField /\ outcome = "field_not_found" /\ ~chart)
        /\ (Printed("close_note") <=> target_col = Close)
        /\ \A s \in DOMAIN data :
               /\ s \in DOMAIN data_raw.layered[target_col]
               /\ \A i \in Rows :
                      data_raw.layered[target_col][s][i] # NaN =>
                          data[s][i] = data_raw.layered[target_col][s][i]

C3_Witness ==
    /\ pc = "ran"
    /\ data_raw.kind = "layered"
    /\ RawFields = {Close}
    /\ target_col = Close
    /\ Printed("close_note")
    /\ DOMAIN data # {}

\* C4 (as claimed): a column whose first cleaned value is zero is left out,
\* so a finished run holds no NaN and no infinity in the strategy series, the
\* benchmark series or the returns.
C4_NoUndefinedValueInResults ==
    (pc = "ran" /\ outcome = "done") =>
        /\ \A i \in Rows : IsNum(strategy_col[i])
        /\ \A i \in DOMAIN benchmark_col : IsNum(benchmark_col[i])
        /\ IsNum(strategy_return)
        /\ (benchmark_return = None \/ IsNum(benchmark_return))
        /\ \A j \in 1..Len(valid_tickers) : data[valid_tickers[j]][1] # 0

\* C5 (as claimed): with 'Adj Close' absent and 'Close' present, and a price
\* under 'Close' to work on, the run completes under either table shape, with
\* the advisory, the strategy return and the chart.
CloseOnly == HasTable /\ AdjClose \notin RawFields /\ Close \in RawFields
CloseUsable ==
    \/ data_raw.kind = "layered" /\ SomeCandidateSurvives
    \/ data_raw.kind = "flat" /\ \E i \in Rows : data_raw.flat[Close][i] # NaN

C5_FallbackRunCompletes ==
    (pc = "ran" /\ CloseOnly /\ CloseUsable) =>
        /\ outcome = "done"
        /\ Printed("close_note")
        /\ Printed("results")
        /\ strategy_return # None
        /\ chart

\* C6 (as claimed): every column kept by cleaning has no gap left and starts
\* at exactly 100 once normalised.
C6_NormalizedStartsAt100 ==
    (pc = "ran" /\ outcome \in {"done", "no_valid"}) =>
        \A s \in DOMAIN data :
            /\ \A i \in Rows : data[s][i] # NaN
            /\ normalized_data[s][1] = Hundred

\* The arithmetic mean of the normalised values of the symbols in S on row i:
\* undefined (NaN) as soon as one of them is.
RECURSIVE SetSum(_, _)
SetSum(S, i) ==
    IF S = {} THEN Num(0, 1)
    ELSE LET x == CHOOSE y \in S : TRUE
             r == SetSum(S \ {x}, i)
             h == normalized_data[x][i]
         IN Num(h.n * r.d + r.n * h.d, h.d * r.d)

SetMean(S, i) ==
    IF \E x \in S : normalized_data[x][i].k = "nan" THEN FNaN
    ELSE IF \E x \in S : normalized_data[x][i].k = "inf" THEN PInf
    ELSE LET t == SetSum(S, i) IN Num(t.n, t.d * Cardinality(S))

PresentCandidates == {t \in Range(tickers) : t \in DOMAIN data}

\* C7 (as claimed): on every date the strategy series is the arithmetic mean
\* of the normalised values over the set of candidates present in the cleaned
\* table, and a run with a surviving candidate reports the last value of the
\* series minus 100.
C7_StrategyIsMeanOverPresentSet ==
    /\ (pc = "ran" /\ SomeCandidateSurvives) => outcome = "done"
    /\ (pc = "ran" /\ outcome = "done") =>
          /\ \A i \in Rows : strategy_col[i] = SetMean(PresentCandidates, i)
          /\ strategy_return = FSub(strategy_col[Len(Window)], Hundred)

\* C8: with the benchmark absent from the cleaned table and a candidate
\* surviving, the run completes: advisory, strategy return and chart, and
\* neither a benchmark return nor a verdict.
C8_BenchmarkMissingStillReports ==
    (pc = "ran" /\ SomeCandidateSurvives /\ ~HasHistory(Benchmark)) =>
        /\ outcome = "done"
        /\ Printed("benchmark_missing")
        /\ Printed("results")
        /\ strategy_return # None
        /\ chart
        /\ benchmark_col = <<>>
        /\ benchmark_return = None
        /\ diff = None
        /\ ~Printed("nifty_return")
        /\ ~Printed("success")
        /\ ~Printed("underperformance")

C8_Witness ==
    /\ pc = "ran"
    /\ SomeCandidateSurvives
    /\ Benchmark \in DOMAIN data_raw.layered[PreferredField]
    /\ ~HasHistory(Benchmark)
    /\ Printed("benchmark_missing")
    /\ IsNum(strategy_return)
    /\ chart

\* C9: with both returns present, the outperformance is their difference and
\* the verdict is success exactly when it is strictly positive; a tie is an
\* underperformance.
Positive(x) == (x.k = "num" /\ x.n > 0) \/ x = PInf

C9_VerdictFollowsOutperformance ==
    (pc = "ran" /\ strategy_return # None /\ benchmark_return # None) =>
        /\ (IsNum(strategy_return) /\ IsNum(benchmark_return)) =>
               /\ IsNum(diff)
               /\ diff.n * strategy_return.d * benchmark_return.d =
                      diff.d * (strategy_return.n * benchmark_return.d
                                - benchmark_return.n * strategy_return.d)
        /\ Printed("success") <=> Positive(diff)
        /\ Printed("underperformance") <=> ~Positive(diff)

C9_Witness ==
    /\ pc = "ran"
    /\ IsNum(strategy_return)
    /\ strategy_return = benchmark_return
    /\ diff = Num(0, 1)
    /\ Printed("underperformance")
    /\ ~Printed("success")

\* C10 (as claimed): a second run on the same file and the same provider
\* response gives the same returns, outperformance and window dates, whenever
\* it is started.
SameReturns ==
    /\ outcome = first.outcome
    /\ strategy_return = first.strategy_return
    /\ benchmark_return = first.benchmark_return
    /\ diff = first.diff
SameWindow == start_date = first.start_date /\ end_date = first.end_date

C10_RerunSameResult ==
    (pc = "reran" /\ data_raw = first.data_raw /\ first.outcome = "done") =>
        (SameReturns /\ SameWindow)

\* C10 (amended): the second run gives the same returns and outperformance;
\* its window ends on the day it starts and begins Years * 365 days earlier,
\* so the window is the same exactly when both runs start on the same day.
C10_RerunSameReturns ==
    (pc = "reran" /\ data_raw = first.data_raw) =>
        /\ SameReturns
        /\ fetched =>
              /\ end_date = Date(today)
              /\ start_date = Date(today - Years * DaysPerYear)
              /\ first.end_date = Date(first.day)
              /\ (SameWindow <=> today = first.day)

C10_Witness ==
    /\ pc = "reran"
    /\ data_raw = first.data_raw
    /\ today > first.day
    /\ outcome = "done"
    /\ IsNum(strategy_return)
    /\ IsNum(benchmark_return)
    /\ ~SameWindow

====
